---- MODULE Spec2Model ----
(***************************************************************************)
(* Model of src/components/PacketMonitorPanel.tsx: the polling sync layer, *)
(* the derived (memoized) view values and the interaction handlers of the  *)
(* mesh traffic monitor panel.                                             *)
(*                                                                         *)
(* Conventions.  An optional value (undefined / null in the source) is a   *)
(* sequence of length 0 or 1.  A JavaScript number that may also be NaN or *)
(* undefined is a record [kind, val].  A string that is parsed is a        *)
(* sequence of one-character strings.  The component's state variables     *)
(* hold the value most recently passed to their setters.  A function value *)
(* created during a render (fetchPackets, handleClear) is represented by   *)
(* the values it closes over: [canView, filters, autoScroll].              *)
(***************************************************************************)
EXTENDS Integers, Sequences, FiniteSets, TLC

\* ------------------------------------------------------------------------
\* Bounds of the model
\* ------------------------------------------------------------------------
MaxInflight == 2      \* getPackets calls outstanding at once
MaxClears == 1        \* clearPackets calls outstanding at once
MaxTimerId == 2       \* setInterval calls made in one behaviour

\* ------------------------------------------------------------------------
\* parseInt(string, 16) and the own-node number (lines 47-51)
\* ------------------------------------------------------------------------
Num(n) == [kind |-> "num", val |-> n]
NaN == [kind |-> "nan", val |-> 0]
Undefined == [kind |-> "undefined", val |-> 0]
Null == [kind |-> "null", val |-> 0]
\* an unsigned 32-bit number held as two 16-bit halves (to_node can be 0xffffffff)
Wide(hi, lo) == [kind |-> "num", val |-> <<hi, lo>>]

WhiteSpace == {" "}

HexChars == {"0", "1", "2", "3", "4", "5", "6", "7", "8", "9",
             "a", "b", "c", "d", "e", "f", "A", "B", "C", "D", "E", "F"}

HexVal(c) ==
    CASE c = "0" -> 0 [] c = "1" -> 1 [] c = "2" -> 2 [] c = "3" -> 3
      [] c = "4" -> 4 [] c = "5" -> 5 [] c = "6" -> 6 [] c = "7" -> 7
      [] c = "8" -> 8 [] c = "9" -> 9
      [] c \in {"a", "A"} -> 10 [] c \in {"b", "B"} -> 11
      [] c \in {"c", "C"} -> 12 [] c \in {"d", "D"} -> 13
      [] c \in {"e", "E"} -> 14 [] c \in {"f", "F"} -> 15

RECURSIVE StripLeadingWhiteSpace(_)
StripLeadingWhiteSpace(s) ==
    IF s # <<>> /\ Head(s) \in WhiteSpace
    THEN StripLeadingWhiteSpace(Tail(s))
    ELSE s

\* the longest prefix of s made of hexadecimal digits
RECURSIVE HexPrefix(_)
HexPrefix(s) ==
    IF s # <<>> /\ Head(s) \in HexChars
    THEN <<Head(s)>> \o HexPrefix(Tail(s))
    ELSE <<>>

RECURSIVE HexNumber(_, _)
HexNumber(digits, acc) ==
    IF digits = <<>> THEN acc
    ELSE HexNumber(Tail(digits), acc * 16 + HexVal(Head(digits)))

\* ECMAScript parseInt(s, 16): skip white space, take a sign, skip "0x",
\* convert the longest prefix of digits, NaN when that prefix is empty.
parseInt16(s) ==
    LET t == StripLeadingWhiteSpace(s)
        signed == t # <<>> /\ Head(t) \in {"+", "-"}
        sign == IF t # <<>> /\ Head(t) = "-" THEN -1 ELSE 1
        u == IF signed THEN Tail(t) ELSE t
        v == IF Len(u) >= 2 /\ u[1] = "0" /\ u[2] \in {"x", "X"}
             THEN SubSeq(u, 3, Len(u)) ELSE u
        digits == HexPrefix(v)
    IN  IF digits = <<>> THEN NaN ELSE Num(sign * HexNumber(digits, 0))

\* deviceInfo?.localNodeInfo?.nodeId : [present, str]
NoNodeId == [present |-> FALSE, str |-> <<>>]
NodeId(s) == [present |-> TRUE, str |-> s]

ownNodeNumOf(nid) ==
    IF ~nid.present \/ nid.str = <<>> \/ Head(nid.str) # "!"
    THEN Undefined
    ELSE parseInt16(Tail(nid.str))

\* JavaScript truthiness of a number | undefined
Truthy(n) == n.kind = "num" /\ n.val # 0

\* ------------------------------------------------------------------------
\* Effective row list (lines 54-59)
\* ------------------------------------------------------------------------
RECURSIVE FilterSeq(_, _)
FilterSeq(s, own) ==
    IF s = <<>> THEN <<>>
    ELSE IF Num(Head(s).from_node) # own
         THEN <<Head(s)>> \o FilterSeq(Tail(s), own)
         ELSE FilterSeq(Tail(s), own)

packetsOf(raw, hide, own) ==
    IF hide /\ Truthy(own) THEN FilterSeq(raw, own) ELSE raw

\* ------------------------------------------------------------------------
\* Inputs
\* ------------------------------------------------------------------------
\* a PacketLog record; a string field is an optional sequence of characters
Packet(i, from) ==
    [id |-> i, from_node |-> from,
     from_node_id |-> <<>>, from_node_longName |-> <<>>,
     to_node |-> Null, to_node_id |-> <<>>, to_node_longName |-> <<>>,
     portnum |-> Num(1), portnum_name |-> <<>>,
     hop_start |-> Undefined, hop_limit |-> Undefined]

BroadcastId == <<"!", "f", "f", "f", "f", "f", "f", "f", "f">>
BroadcastText == <<"B", "r", "o", "a", "d", "c", "a", "s", "t">>
NAText == <<"N", "/", "A">>
\* the number the broadcast identifier denotes
BroadcastNum ==
    Wide(HexNumber(SubSeq(BroadcastId, 2, 5), 0), HexNumber(SubSeq(BroadcastId, 6, 9), 0))

\* responses of getPackets(0, 100, filters): {packets, total, maxCount}
Responses ==
    { [packets |-> <<>>, total |-> 0, maxCount |-> 1000],
      [packets |-> <<Packet(1, 1), Packet(2, 0)>>, total |-> 7, maxCount |-> 500] }

\* values of deviceInfo.localNodeInfo.nodeId
NodeIds == { NodeId(<<"!", "1">>) }

\* values of nodeId and raw record lists for the view derivation
ViewNodeIds ==
    { NoNodeId,
      NodeId(<<>>),
      NodeId(<<"!">>),
      NodeId(<<"1", "2">>),
      NodeId(<<"!", "0">>),
      NodeId(<<"!", "0", "0">>),
      NodeId(<<"!", "1">>),
      NodeId(<<"!", "1", "2">>),
      NodeId(<<"!", "1", "F">>),
      NodeId(<<"!", "1", "g">>),
      NodeId(<<"!", "g", "1">>),
      NodeId(<<"!", " ", "1">>),
      NodeId(<<"!", "-", "1">>),
      NodeId(<<"!", "0", "x", "1">>) }

ViewRawLists ==
    { <<>>,
      <<Packet(1, 1)>>,
      <<Packet(1, 0), Packet(2, 1)>>,
      <<Packet(1, 18), Packet(2, 0), Packet(3, 18)>>,
      <<Packet(1, 1), Packet(2, 31), Packet(3, 1)>>,
      <<Packet(1, 7), Packet(2, 18), Packet(3, 31)>> }

\* records with node identifiers, long names, type labels and hop counters
LongName31 == [i \in 1..31 |-> "n"]
ViewPacketA ==
    [Packet(1, 18) EXCEPT
        !.from_node_id = <<<<"!", "1", "2">>>>,
        !.from_node_longName = <<<<"A", "l">>>>,
        !.to_node = BroadcastNum,
        !.to_node_id = <<BroadcastId>>,
        !.to_node_longName = <<<<"A", "l", "l">>>>,
        !.portnum_name = <<<<"T", "E", "X", "T">>>>,
        !.hop_start = Num(3), !.hop_limit = Num(1)]
ViewPacketB ==
    [Packet(2, 1) EXCEPT
        !.to_node = BroadcastNum,
        !.portnum = Num(12345678),
        !.portnum_name = <<<<>>>>,
        !.hop_start = Null, !.hop_limit = Num(3)]
ViewPacketC ==
    [Packet(3, 0) EXCEPT
        !.from_node_id = <<BroadcastId>>,
        !.to_node = Wide(0, 1),
        !.to_node_id = <<<<"!", "1">>>>,
        !.to_node_longName = <<LongName31>>,
        !.portnum = Num(67),
        !.hop_start = Num(3)]
ViewPacketD ==
    [Packet(4, 7) EXCEPT
        !.from_node_id = <<<<>>>>,
        !.to_node = Wide(0, 7),
        !.to_node_id = <<<<"!", "7">>>>,
        !.portnum = Num(67),
        !.portnum_name = <<<<"T", "E", "L", "E", "M", "E", "T", "R", "Y", "_", "A", "P", "P">>>>,
        !.hop_start = Num(2), !.hop_limit = Num(2)]

ViewRichLists ==
    { <<ViewPacketA>>,
      <<ViewPacketB>>,
      <<ViewPacketA, ViewPacketC>>,
      <<ViewPacketC, ViewPacketD>> }

\* values offered by the port-type <select> (a subset) and the encrypted <select>
PortnumOptions == {<<>>, <<1>>}
EncryptedOptions == {<<>>, <<TRUE>>}

\* ------------------------------------------------------------------------
\* State
\* ------------------------------------------------------------------------
VARIABLES
    phase,            \* "init" (constructed), "mounted", "unmounted"
    canView,          \* hasPermission('channels','read') && hasPermission('messages','read')
    isAdmin,          \* authStatus?.user?.isAdmin
    nodeId,           \* deviceInfo?.localNodeInfo?.nodeId
    rawPackets, total, maxCount, loading,
    autoScroll, selectedPacket, filters, showFilters, hideOwnPackets,
    scrollTop,        \* tableRef.current.scrollTop: 0 = top, 1 = scrolled down
    pollIntervalRef,  \* pollIntervalRef.current: a timer id, 0 = null
    timers,           \* the active interval timers, each with the fetchPackets it calls
    nextTimerId,      \* the id the next setInterval returns
    cleanupPending,   \* the last run of the polling effect returned its cleanup
    inflight,         \* getPackets calls awaiting their response, in issue order
    clearInflight,    \* clearPackets calls awaiting their result, each with handleClear's fetchPackets
    lastAlert,        \* text of the last alert() shown
    lastOutcome,      \* history: "none", "ok" or "fail", outcome of the last getPackets call settled
    lastResp,         \* history: the last successful response settled (optional)
    lastOvertaken,    \* history: that response's request was issued before one settled earlier
    lastFilters,      \* history: the criteria that response's request carried (optional)
    onNodeClick,      \* the optional onNodeClick prop was supplied
    navigated,        \* the argument of the last onNodeClick call (optional)
    navCalls,         \* number of onNodeClick calls made
    lastClick         \* history: the last from/to cell clicked, [packet, cell] (optional)

vars == <<phase, canView, isAdmin, nodeId, rawPackets, total, maxCount, loading,
          autoScroll, selectedPacket, filters, showFilters, hideOwnPackets,
          scrollTop, pollIntervalRef, timers, nextTimerId, cleanupPending,
          inflight, clearInflight, lastAlert, lastOutcome, lastResp, lastOvertaken,
          lastFilters,
          onNodeClick, navigated, navCalls, lastClick>>

authVars == <<canView, isAdmin, nodeId>>
dataVars == <<rawPackets, total, maxCount, loading, scrollTop>>
uiVars == <<autoScroll, selectedPacket, filters, showFilters, hideOwnPackets>>
timerVars == <<pollIntervalRef, timers, nextTimerId, cleanupPending>>
histVars == <<lastOutcome, lastResp, lastOvertaken, lastFilters>>
navVars == <<onNodeClick, navigated, navCalls, lastClick>>

\* ------------------------------------------------------------------------
\* Derived values of a render
\* ------------------------------------------------------------------------
ownNodeNum == ownNodeNumOf(nodeId)
packets == packetsOf(rawPackets, hideOwnPackets, ownNodeNum)

\* the fetchPackets of the current render (useCallback, deps canView, filters, autoScroll)
fetchPacketsOf(cv, f, as) == [canView |-> cv, filters |-> f, autoScroll |-> as]
fetchPackets == fetchPacketsOf(canView, filters, autoScroll)

\* the main view (not the permission-denied view) is rendered
PanelRendered == phase = "mounted" /\ canView
\* tableRef.current is the table container, null when it is not rendered
TableRefSet == PanelRendered
\* what the table container shows (lines 279-283)
TableArea ==
    IF loading THEN "loading"
    ELSE IF Len(packets) = 0 THEN "no-packets" ELSE "table"

Init ==
    /\ phase = "init"
    /\ canView \in BOOLEAN
    /\ isAdmin \in BOOLEAN
    /\ nodeId \in NodeIds
    /\ rawPackets = <<>>
    /\ total = 0
    /\ maxCount = 1000
    /\ loading = TRUE
    /\ autoScroll = TRUE
    /\ selectedPacket = <<>>
    /\ filters = [portnum |-> <<>>, encrypted |-> <<>>]
    /\ showFilters = FALSE
    /\ hideOwnPackets = TRUE
    /\ scrollTop = 0
    /\ pollIntervalRef = 0
    /\ timers = {}
    /\ nextTimerId = 1
    /\ cleanupPending = FALSE
    /\ inflight = <<>>
    /\ clearInflight = <<>>
    /\ lastAlert = ""
    /\ lastOutcome = "none"
    /\ lastResp = <<>>
    /\ lastOvertaken = FALSE
    /\ lastFilters = <<>>
    /\ onNodeClick = FALSE
    /\ navigated = <<>>
    /\ navCalls = 0
    /\ lastClick = <<>>

\* ------------------------------------------------------------------------
\* fetchPackets: the call up to the await (lines 78-82)
\* ------------------------------------------------------------------------
Request(fp) ==
    [offset |-> 0, limit |-> 100, filters |-> fp.filters,
     autoScroll |-> fp.autoScroll, overtaken |-> FALSE]

\* the calls outstanding after fp is called
fetchPacketsCall(fp, infl) ==
    IF ~fp.canView THEN infl ELSE Append(infl, Request(fp))

CanIssue(fp) == fp.canView => Len(inflight) < MaxInflight

\* ------------------------------------------------------------------------
\* fetchPackets: after the await (lines 84-96)
\* ------------------------------------------------------------------------
DataState ==
    [rawPackets |-> rawPackets, total |-> total, maxCount |-> maxCount,
     loading |-> loading, scrollTop |-> scrollTop]

\* variant: the response's records are appended to the list already held
onFetchSuccessMerged(s, req, resp, tableRefSet) ==
    [rawPackets |-> s.rawPackets \o resp.packets,
     total |-> resp.total,
     maxCount |-> resp.maxCount,
     loading |-> FALSE,
     scrollTop |-> IF req.autoScroll /\ tableRefSet THEN 0 ELSE s.scrollTop]

\* variant: a response older than one already delivered is dropped
onFetchSuccessGuarded(s, req, resp, tableRefSet) ==
    IF req.overtaken
    THEN [s EXCEPT !.loading = FALSE]
    ELSE [rawPackets |-> resp.packets,
          total |-> resp.total,
          maxCount |-> resp.maxCount,
          loading |-> FALSE,
          scrollTop |-> IF req.autoScroll /\ tableRefSet THEN 0 ELSE s.scrollTop]

onFetchSuccess(s, req, resp, tableRefSet) ==
    [rawPackets |-> resp.packets,
     total |-> resp.total,
     maxCount |-> resp.maxCount,
     loading |-> FALSE,
     scrollTop |-> IF req.autoScroll /\ tableRefSet THEN 0 ELSE s.scrollTop]

\* variant: a failure empties the list
onFetchFailureClearing(s) == [s EXCEPT !.loading = FALSE, !.rawPackets = <<>>]

\* variant: the catch block does not clear the loading flag
onFetchFailureSilent(s) == s

onFetchFailure(s) == [s EXCEPT !.loading = FALSE]

SetDataState(s) ==
    /\ rawPackets' = s.rawPackets
    /\ total' = s.total
    /\ maxCount' = s.maxCount
    /\ loading' = s.loading
    /\ scrollTop' = s.scrollTop

RemoveAt(q, i) == SubSeq(q, 1, i - 1) \o SubSeq(q, i + 1, Len(q))

\* the calls still outstanding after the i-th one settled successfully: the
\* ones issued before it are now older than a response already delivered
AfterSettled(q, i) ==
    [j \in 1..(Len(q) - 1) |->
        IF j < i THEN [q[j] EXCEPT !.overtaken = TRUE] ELSE q[j + 1]]

FetchSuccess(i, resp) ==
    /\ i \in 1..Len(inflight)
    /\ SetDataState(onFetchSuccess(DataState, inflight[i], resp, TableRefSet))
    /\ inflight' = AfterSettled(inflight, i)
    /\ lastOutcome' = "ok"
    /\ lastResp' = <<resp>>
    /\ lastOvertaken' = inflight[i].overtaken
    /\ lastFilters' = <<inflight[i].filters>>
    /\ UNCHANGED navVars
    /\ UNCHANGED <<phase, authVars, uiVars, timerVars, clearInflight, lastAlert>>

FetchFailure(i) ==
    /\ i \in 1..Len(inflight)
    /\ SetDataState(onFetchFailure(DataState))
    /\ inflight' = RemoveAt(inflight, i)
    /\ lastOutcome' = "fail"
    /\ UNCHANGED navVars
    /\ UNCHANGED <<phase, authVars, uiVars, timerVars, clearInflight, lastAlert,
                   lastResp, lastOvertaken, lastFilters>>

\* ------------------------------------------------------------------------
\* The polling effect (lines 100-113)
\* ------------------------------------------------------------------------
\* variant: the effect returns no cleanup
effectCleanupMissing(tms, ref) == tms

\* the cleanup function returned by the effect
effectCleanup(tms, ref) ==
    IF ref # 0 THEN {t \in tms : t.id # ref} ELSE tms

\* React runs the cleanup of the previous run (if it returned one), then the body
RunEffect(fp) ==
    LET cleaned == IF cleanupPending THEN effectCleanup(timers, pollIntervalRef)
                   ELSE timers
    IN  IF ~fp.canView
        THEN /\ timers' = cleaned
             /\ cleanupPending' = FALSE
             /\ UNCHANGED <<pollIntervalRef, nextTimerId, inflight>>
        ELSE /\ nextTimerId <= MaxTimerId
             /\ CanIssue(fp)
             /\ inflight' = fetchPacketsCall(fp, inflight)
             /\ timers' = cleaned \cup {[id |-> nextTimerId, fp |-> fp]}
             /\ pollIntervalRef' = nextTimerId
             /\ nextTimerId' = nextTimerId + 1
             /\ cleanupPending' = TRUE

Mount ==
    /\ phase = "init"
    /\ phase' = "mounted"
    /\ RunEffect(fetchPackets)
    /\ UNCHANGED navVars
    /\ UNCHANGED <<authVars, dataVars, uiVars, clearInflight, lastAlert, histVars>>

Unmount ==
    /\ phase = "mounted"
    /\ phase' = "unmounted"
    /\ timers' = IF cleanupPending THEN effectCleanup(timers, pollIntervalRef) ELSE timers
    /\ cleanupPending' = FALSE
    /\ UNCHANGED navVars
    /\ UNCHANGED <<authVars, dataVars, uiVars, pollIntervalRef, nextTimerId,
                   inflight, clearInflight, lastAlert, histVars>>

\* a tick of an active interval timer calls the fetchPackets given to setInterval
PollTick(t) ==
    /\ t \in timers
    /\ CanIssue(t.fp)
    /\ inflight' = fetchPacketsCall(t.fp, inflight)
    /\ UNCHANGED navVars
    /\ UNCHANGED <<phase, authVars, dataVars, uiVars, timerVars, clearInflight,
                   lastAlert, histVars>>

\* the auth context changes: canView and isAdmin are re-evaluated; the effect
\* re-runs when canView (and with it fetchPackets) changed
AuthChange(cv, adm) ==
    /\ phase = "mounted"
    /\ <<cv, adm>> # <<canView, isAdmin>>
    /\ canView' = cv
    /\ isAdmin' = adm
    /\ IF cv # canView
       THEN RunEffect(fetchPacketsOf(cv, filters, autoScroll))
       ELSE UNCHANGED <<timerVars, inflight>>
    /\ UNCHANGED navVars
    /\ UNCHANGED <<phase, nodeId, dataVars, uiVars, clearInflight, lastAlert, histVars>>

\* ------------------------------------------------------------------------
\* Header and filter controls (lines 210-275)
\* ------------------------------------------------------------------------
\* a state change that gives fetchPackets a new identity re-runs the effect
ToggleAutoScroll ==
    /\ PanelRendered
    /\ autoScroll' = ~autoScroll
    /\ RunEffect(fetchPacketsOf(canView, filters, ~autoScroll))
    /\ UNCHANGED navVars
    /\ UNCHANGED <<phase, authVars, dataVars, selectedPacket, filters, showFilters,
                   hideOwnPackets, clearInflight, lastAlert, histVars>>

ToggleShowFilters ==
    /\ PanelRendered
    /\ showFilters' = ~showFilters
    /\ UNCHANGED navVars
    /\ UNCHANGED <<phase, authVars, dataVars, autoScroll, selectedPacket, filters,
                   hideOwnPackets, timerVars, inflight, clearInflight, lastAlert, histVars>>

\* setFilters(f): f is always a new object, so fetchPackets changes
SetFilters(f) ==
    /\ filters' = f
    /\ RunEffect(fetchPacketsOf(canView, f, autoScroll))
    /\ UNCHANGED navVars
    /\ UNCHANGED <<phase, authVars, dataVars, autoScroll, selectedPacket, showFilters,
                   hideOwnPackets, clearInflight, lastAlert, histVars>>

\* onChange of a <select> fires when its value changes
SelectPortnum(v) ==
    /\ PanelRendered /\ showFilters
    /\ v \in PortnumOptions /\ v # filters.portnum
    /\ SetFilters([filters EXCEPT !.portnum = v])

SelectEncrypted(v) ==
    /\ PanelRendered /\ showFilters
    /\ v \in EncryptedOptions /\ v # filters.encrypted
    /\ SetFilters([filters EXCEPT !.encrypted = v])

ClearFilters ==
    /\ PanelRendered /\ showFilters
    /\ SetFilters([portnum |-> <<>>, encrypted |-> <<>>])

\* variant: the toggle is treated as fetch-affecting state (effect re-run)
ToggleHideOwnPacketsRefetching ==
    /\ PanelRendered /\ showFilters
    /\ hideOwnPackets' = ~hideOwnPackets
    /\ RunEffect(fetchPackets)
    /\ UNCHANGED navVars
    /\ UNCHANGED <<phase, authVars, dataVars, autoScroll, selectedPacket, filters,
                   showFilters, clearInflight, lastAlert, histVars>>

ToggleHideOwnPackets ==
    /\ PanelRendered /\ showFilters
    /\ hideOwnPackets' = ~hideOwnPackets
    /\ UNCHANGED navVars
    /\ UNCHANGED <<phase, authVars, dataVars, autoScroll, selectedPacket, filters,
                   showFilters, timerVars, inflight, clearInflight, lastAlert, histVars>>

\* ------------------------------------------------------------------------
\* Cell rendering (lines 72-75, 321-346, 397-404)
\* ------------------------------------------------------------------------
DigitChar(d) ==
    CASE d = 0 -> "0" [] d = 1 -> "1" [] d = 2 -> "2" [] d = 3 -> "3" [] d = 4 -> "4"
      [] d = 5 -> "5" [] d = 6 -> "6" [] d = 7 -> "7" [] d = 8 -> "8" [] d = 9 -> "9"

\* String(n) for an integer n
RECURSIVE NatToString(_)
NatToString(n) ==
    IF n < 10 THEN <<DigitChar(n)>>
    ELSE NatToString(n \div 10) \o <<DigitChar(n % 10)>>
NumberToString(n) == IF n < 0 THEN <<"-">> \o NatToString(-n) ELSE NatToString(n)

\* String(n) for a number held as halves <<hi, lo>>
WideToString(w) ==
    LET rest == (w[1] % 10) * 65536 + w[2]
        q == (w[1] \div 10) * 65536 + rest \div 10
    IN  IF q = 0 THEN <<DigitChar(rest % 10)>>
        ELSE NatToString(q) \o <<DigitChar(rest % 10)>>

\* an optional string that is undefined or empty is falsy
FalsyStr(o) == o = <<>> \/ o[1] = <<>>
\* a || b for optional strings
OrElse(a, b) == IF FalsyStr(a) THEN b ELSE a

\* type column
paddingChars == 5
defaultWidth == 12
Max(a, b) == IF a >= b THEN a ELSE b
\* String(packet.portnum ?? '')
portnumText(p) == IF p.portnum.kind = "num" THEN NumberToString(p.portnum.val) ELSE <<>>
\* the label the width is computed from: portnum_name ?? String(portnum ?? '')
widthLabel(p) == IF p.portnum_name # <<>> THEN p.portnum_name[1] ELSE portnumText(p)
\* packets.reduce((max, packet) => Math.max(max, label.length), max)
RECURSIVE longestLabel(_, _)
longestLabel(pk, max) ==
    IF pk = <<>> THEN max
    ELSE longestLabel(Tail(pk), Max(max, Len(widthLabel(Head(pk)))))
\* `${totalChars}ch`
typeColumnWidth(pk) ==
    NumberToString(Max(longestLabel(pk, 0) + paddingChars, defaultWidth)) \o <<"c", "h">>
\* the text of the type cell of a row: portnum_name || portnum
portnumCell(p) == IF ~FalsyStr(p.portnum_name) THEN p.portnum_name[1] ELSE portnumText(p)

\* the number a hop field converts to in a subtraction (null converts to 0)
ToNumber(x) == IF x.kind = "null" THEN 0 ELSE x.val
\* calculateHops: a number, or Null
calculateHops(p) ==
    IF p.hop_start # Undefined /\ p.hop_limit # Undefined
    THEN Num(ToNumber(p.hop_start) - ToNumber(p.hop_limit))
    ELSE Null
\* the text of the hops cell of a row
hopsCell(p) ==
    IF calculateHops(p) # Null THEN NumberToString(calculateHops(p).val) ELSE NAText

truncateLongName(longName, maxLength) ==
    IF FalsyStr(longName) THEN <<>>
    ELSE IF Len(longName[1]) > maxLength
         THEN <<SubSeq(longName[1], 1, maxLength) \o <<".", ".", ".">>>>
         ELSE longName

\* what a from / to cell shows: a link (span with onClick) or plain text
fromNodeCell(p, nav) ==
    IF ~FalsyStr(p.from_node_id) /\ nav
    THEN [link |-> TRUE,
          text |-> OrElse(truncateLongName(p.from_node_longName, 30), p.from_node_id)[1]]
    ELSE [link |-> FALSE,
          text |-> LET t == OrElse(truncateLongName(p.from_node_longName, 30), p.from_node_id)
                   IN  IF ~FalsyStr(t) THEN t[1] ELSE NumberToString(p.from_node)]

toNodeCell(p, nav) ==
    IF p.to_node_id = <<BroadcastId>>
    THEN [link |-> FALSE, text |-> BroadcastText]
    ELSE IF ~FalsyStr(p.to_node_id) /\ nav
    THEN [link |-> TRUE,
          text |-> OrElse(truncateLongName(p.to_node_longName, 30), p.to_node_id)[1]]
    ELSE [link |-> FALSE,
          text |-> LET t == OrElse(truncateLongName(p.to_node_longName, 30), p.to_node_id)
                   IN  IF ~FalsyStr(t) THEN t[1]
                       ELSE IF p.to_node.kind = "num" /\ p.to_node.val # <<0, 0>>
                            THEN WideToString(p.to_node.val)
                            ELSE NAText]

\* the To row of the detail overlay
detailTo(p) ==
    IF p.to_node_id = <<BroadcastId>>
    THEN BroadcastText
    ELSE LET t == OrElse(p.to_node_longName, p.to_node_id)
         IN  (IF ~FalsyStr(t) THEN t[1] ELSE NAText) \o <<" ", "(">>
             \o (IF p.to_node.kind = "num" THEN WideToString(p.to_node.val) ELSE NAText)
             \o <<")">>

\* ------------------------------------------------------------------------
\* handleNodeClick (lines 136-141) and the click on a from / to cell
\* ------------------------------------------------------------------------
MaxNavCalls == 2

NavigationCalled(id) == onNodeClick /\ id # <<>> /\ id # BroadcastId

\* variant: the handler does not stop the propagation, the row is selected too
handleNodeClickBubbling(p, id) ==
    /\ selectedPacket' = <<p>>
    /\ IF NavigationCalled(id)
       THEN /\ navCalls < MaxNavCalls
            /\ navigated' = <<id>>
            /\ navCalls' = navCalls + 1
       ELSE UNCHANGED <<navigated, navCalls>>

\* handleNodeClick(id, event) for a click in the row of p
handleNodeClick(p, id) ==
    /\ selectedPacket' = selectedPacket
    /\ IF NavigationCalled(id)
       THEN /\ navCalls < MaxNavCalls
            /\ navigated' = <<id>>
            /\ navCalls' = navCalls + 1
       ELSE UNCHANGED <<navigated, navCalls>>

\* a click on the from or to cell of the i-th row: on the link when the cell
\* shows one, else on plain text, where it reaches the row's onClick
CellClick(i, cell) ==
    /\ PanelRendered
    /\ TableArea = "table"
    /\ i \in 1..Len(packets)
    /\ LET p == packets[i]
           c == IF cell = "from" THEN fromNodeCell(p, onNodeClick)
                ELSE toNodeCell(p, onNodeClick)
           id == IF cell = "from" THEN p.from_node_id[1] ELSE p.to_node_id[1]
       IN  /\ IF c.link
              THEN handleNodeClick(p, id)
              ELSE /\ selectedPacket' = <<p>>
                   /\ UNCHANGED <<navigated, navCalls>>
           /\ lastClick' = <<[packet |-> p, cell |-> cell]>>
    /\ UNCHANGED <<phase, authVars, dataVars, autoScroll, filters, showFilters,
                   hideOwnPackets, timerVars, inflight, clearInflight, lastAlert,
                   histVars, onNodeClick>>

\* ------------------------------------------------------------------------
\* Table and detail overlay (lines 278-381)
\* ------------------------------------------------------------------------
\* the user scrolls the table container down
UserScroll ==
    /\ PanelRendered
    /\ scrollTop = 0
    /\ scrollTop' = 1
    /\ UNCHANGED navVars
    /\ UNCHANGED <<phase, authVars, rawPackets, total, maxCount, loading, uiVars,
                   timerVars, inflight, clearInflight, lastAlert, histVars>>

RowClick(i) ==
    /\ PanelRendered
    /\ TableArea = "table"
    /\ i \in 1..Len(packets)
    /\ selectedPacket' = <<packets[i]>>
    /\ UNCHANGED navVars
    /\ UNCHANGED <<phase, authVars, dataVars, autoScroll, filters, showFilters,
                   hideOwnPackets, timerVars, inflight, clearInflight, lastAlert, histVars>>

\* click on the overlay background or on its close button
CloseOverlay ==
    /\ PanelRendered
    /\ selectedPacket # <<>>
    /\ selectedPacket' = <<>>
    /\ UNCHANGED navVars
    /\ UNCHANGED <<phase, authVars, dataVars, autoScroll, filters, showFilters,
                   hideOwnPackets, timerVars, inflight, clearInflight, lastAlert, histVars>>

\* variant: the content handler lets the click reach the background handler
OverlayContentClickPropagating ==
    /\ PanelRendered
    /\ selectedPacket # <<>>
    /\ selectedPacket' = <<>>
    /\ UNCHANGED navVars
    /\ UNCHANGED <<phase, authVars, dataVars, autoScroll, filters, showFilters,
                   hideOwnPackets, timerVars, inflight, clearInflight, lastAlert, histVars>>

\* click inside the overlay content: the handler only stops the propagation
OverlayContentClick ==
    /\ PanelRendered
    /\ selectedPacket # <<>>
    /\ UNCHANGED vars

\* ------------------------------------------------------------------------
\* handleClear (lines 116-133)
\* ------------------------------------------------------------------------
ClearButtonRendered == PanelRendered /\ isAdmin

\* variant: the clear operation is invoked without asking for confirmation
handleClearUnconfirmed(confirmed) ==
    IF ~isAdmin
    THEN /\ lastAlert' = "Only administrators can clear packet logs"
         /\ UNCHANGED clearInflight
    ELSE /\ Len(clearInflight) < MaxClears
         /\ clearInflight' = Append(clearInflight, fetchPackets)
         /\ UNCHANGED lastAlert

\* handleClear up to the await; confirmed is the answer to confirm()
handleClear(confirmed) ==
    IF ~isAdmin
    THEN /\ lastAlert' = "Only administrators can clear packet logs"
         /\ UNCHANGED clearInflight
    ELSE IF ~confirmed
    THEN UNCHANGED <<lastAlert, clearInflight>>
    ELSE /\ Len(clearInflight) < MaxClears
         /\ clearInflight' = Append(clearInflight, fetchPackets)
         /\ UNCHANGED lastAlert

ClearClick(confirmed) ==
    /\ ClearButtonRendered
    /\ handleClear(confirmed)
    /\ UNCHANGED navVars
    /\ UNCHANGED <<phase, authVars, dataVars, uiVars, timerVars, inflight, histVars>>

\* clearPackets() resolved: handleClear goes on and calls the fetchPackets of
\* the render in which it was created
ClearSuccess(i) ==
    /\ i \in 1..Len(clearInflight)
    /\ CanIssue(clearInflight[i])
    /\ inflight' = fetchPacketsCall(clearInflight[i], inflight)
    /\ clearInflight' = RemoveAt(clearInflight, i)
    /\ UNCHANGED navVars
    /\ UNCHANGED <<phase, authVars, dataVars, uiVars, timerVars, lastAlert, histVars>>

\* variant: the refetch is made whether or not clearPackets() succeeded
ClearFailureRefetching(i) ==
    /\ i \in 1..Len(clearInflight)
    /\ CanIssue(clearInflight[i])
    /\ lastAlert' = "Failed to clear packet logs"
    /\ inflight' = fetchPacketsCall(clearInflight[i], inflight)
    /\ clearInflight' = RemoveAt(clearInflight, i)
    /\ UNCHANGED navVars
    /\ UNCHANGED <<phase, authVars, dataVars, uiVars, timerVars, histVars>>

\* clearPackets() rejected
ClearFailure(i) ==
    /\ i \in 1..Len(clearInflight)
    /\ lastAlert' = "Failed to clear packet logs"
    /\ clearInflight' = RemoveAt(clearInflight, i)
    /\ UNCHANGED navVars
    /\ UNCHANGED <<phase, authVars, dataVars, uiVars, timerVars, inflight, histVars>>

\* ------------------------------------------------------------------------
\* Specification
\* ------------------------------------------------------------------------
Tick == \E t \in timers : PollTick(t)
Settle ==
    \E i \in 1..Len(inflight) :
        \/ \E resp \in Responses : FetchSuccess(i, resp)
        \/ FetchFailure(i)

Next ==
    \/ Mount
    \/ Unmount
    \/ Tick
    \/ \E i \in 1..MaxInflight, resp \in Responses : FetchSuccess(i, resp)
    \/ \E i \in 1..MaxInflight : FetchFailure(i)
    \/ \E cv \in BOOLEAN, adm \in BOOLEAN : AuthChange(cv, adm)
    \/ ToggleAutoScroll
    \/ ToggleShowFilters
    \/ \E v \in PortnumOptions : SelectPortnum(v)
    \/ \E v \in EncryptedOptions : SelectEncrypted(v)
    \/ ClearFilters
    \/ ToggleHideOwnPackets
    \/ UserScroll
    \/ \E i \in 1..2 : RowClick(i)
    \/ CloseOverlay
    \/ OverlayContentClick
    \/ \E confirmed \in BOOLEAN : ClearClick(confirmed)
    \/ \E i \in 1..MaxClears : ClearSuccess(i)
    \/ \E i \in 1..MaxClears : ClearFailure(i)

Spec == Init /\ [][Next]_vars

\* the timer keeps firing while it is active, and every HTTP call settles
LiveSpec == Spec /\ WF_vars(Tick) /\ WF_vars(Settle)

\* ------------------------------------------------------------------------
\* View derivation on its own: the panel is mounted, the first response has
\* been delivered, and the inputs of the memoized values change
\* ------------------------------------------------------------------------
ViewInit ==
    /\ phase = "mounted"
    /\ canView = TRUE
    /\ isAdmin = FALSE
    /\ nodeId = NoNodeId
    /\ rawPackets \in ViewRawLists \cup ViewRichLists
    /\ total = Len(rawPackets)
    /\ maxCount = 1000
    /\ loading = FALSE
    /\ autoScroll = TRUE
    /\ selectedPacket = <<>>
    /\ filters = [portnum |-> <<>>, encrypted |-> <<>>]
    /\ showFilters = TRUE
    /\ hideOwnPackets = TRUE
    /\ scrollTop = 0
    /\ pollIntervalRef = 1
    /\ timers = {[id |-> 1, fp |-> fetchPacketsOf(TRUE, filters, TRUE)]}
    /\ nextTimerId = 2
    /\ cleanupPending = TRUE
    /\ inflight = <<>>
    /\ clearInflight = <<>>
    /\ lastAlert = ""
    /\ lastOutcome = "ok"
    /\ lastResp = <<[packets |-> rawPackets, total |-> total, maxCount |-> maxCount]>>
    /\ lastOvertaken = FALSE
    /\ lastFilters = <<filters>>
    /\ onNodeClick \in BOOLEAN
    /\ navigated = <<>>
    /\ navCalls = 0
    /\ lastClick = <<>>

\* the device-identity provider reports another own-node identifier
DeviceInfoChange(nid) ==
    /\ phase = "mounted"
    /\ nid # nodeId
    /\ nodeId' = nid
    /\ UNCHANGED navVars
    /\ UNCHANGED <<phase, canView, isAdmin, dataVars, uiVars, timerVars, inflight,
                   clearInflight, lastAlert, histVars>>

MaxViewRows == 3

ViewNext ==
    \/ \E nid \in ViewNodeIds : DeviceInfoChange(nid)
    \/ ToggleHideOwnPackets
    \/ \E i \in 1..MaxViewRows, cell \in {"from", "to"} : CellClick(i, cell)

ViewSpec == ViewInit /\ [][ViewNext]_vars

\* ------------------------------------------------------------------------
\* Properties
\* ------------------------------------------------------------------------
\* an identifier of the form "!" followed by hexadecimal digits only
WellFormed(nid) ==
    /\ nid.present
    /\ Len(nid.str) >= 2
    /\ nid.str[1] = "!"
    /\ \A i \in 2..Len(nid.str) : nid.str[i] \in HexChars
\* the number such an identifier denotes
Denoted(nid) == HexNumber(Tail(nid.str), 0)

RECURSIVE IsSubSeq(_, _)
IsSubSeq(a, b) ==
    IF a = <<>> THEN TRUE
    ELSE IF b = <<>> THEN FALSE
    ELSE IF Head(a) = Head(b) THEN IsSubSeq(Tail(a), Tail(b))
    ELSE IsSubSeq(a, Tail(b))

\* C1: with hide-own-packets enabled and an own-node identifier of the form
\* "!" + hex digits, whatever number it denotes, no displayed row has that
\* number as its source id.
C1_NoOwnPacketShown ==
    (hideOwnPackets /\ WellFormed(nodeId)) =>
        \A i \in 1..Len(packets) : packets[i].from_node # Denoted(nodeId)

\* C2: with the toggle disabled, or the own-node identifier absent or not of
\* the form "!" + hex digits, the displayed rows are exactly the raw list; and
\* the displayed rows are always an order-preserving sub-sequence of it.
C2_PassThrough ==
    /\ (~hideOwnPackets \/ ~WellFormed(nodeId)) => packets = rawPackets
    /\ IsSubSeq(packets, rawPackets)

\* a step in which a getPackets call is issued / settles
Issued == Len(inflight') > Len(inflight)
Settled == Len(inflight') < Len(inflight)
Last(q) == q[Len(q)]

Triple == <<rawPackets, total, maxCount>>
TripleOf(r) == <<r.packets, r.total, r.maxCount>>
InitialTriple == <<<<>>, 0, 1000>>

\* C3: while the capability check fails no poll timer is active and no
\* getPackets call is issued, whatever handler runs.
C3_InertWithoutPermission ==
    /\ [](~canView => timers = {})
    /\ [][(~canView /\ ~canView') => ~Issued]_vars

\* C4: (raw list, total, maxCount) is the initial triple or the triple of one
\* single response, and after a successful response the loading flag is clear.
C4_ReplacedTogether ==
    /\ \/ Triple = InitialTriple
       \/ \E r \in Responses : Triple = TripleOf(r)
    /\ lastOutcome = "ok" => ~loading
\* a non-empty list (a row of it was selected) has been replaced by an empty one
C4_Witness ==
    /\ lastOutcome = "ok"
    /\ ~loading
    /\ selectedPacket # <<>>
    /\ rawPackets = <<>>
    /\ Triple = TripleOf(lastResp[1])

\* C5: a failed getPackets call clears the loading flag and leaves the raw
\* list, total, maxCount, filter criteria and selection as they were.
C5_FailureKeepsData ==
    [][(Settled /\ lastOutcome' = "fail") =>
         /\ ~loading'
         /\ UNCHANGED <<rawPackets, total, maxCount, filters, selectedPacket>>]_vars
C5_Witness ==
    /\ lastOutcome = "fail"
    /\ ~loading
    /\ rawPackets # <<>>
    /\ selectedPacket # <<>>

\* C6: loading is true exactly until the first response (success or failure)
\* is delivered and never true again; after a response with an empty list the
\* table area shows "no packets".
C6_LoadingOnlyBeforeFirstResponse ==
    /\ [](loading <=> lastOutcome = "none")
    /\ [][~loading => ~loading']_vars
    /\ []((lastOutcome # "none" /\ Len(packets) = 0) => TableArea = "no-packets")
C6_Witness ==
    /\ PanelRendered
    /\ lastOutcome = "ok"
    /\ rawPackets = <<>>
    /\ TableArea = "no-packets"
    /\ inflight # <<>>

\* C7: at most one poll timer is active; after teardown none is, and no timer
\* tick issues a request.
C7_OneTimer ==
    /\ [](Cardinality(timers) <= 1)
    /\ [](phase = "unmounted" => timers = {})
    /\ [][phase = "unmounted" => ~Tick]_vars
C7_Witness ==
    /\ phase = "unmounted"
    /\ nextTimerId > 2
    /\ timers = {}

C9_KeepsPolling ==
    (<>[](phase = "mounted" /\ canView)) => []<><<Issued>>_vars
C9_RequestParameters ==
    [][Issued =>
         /\ Last(inflight').offset = 0
         /\ Last(inflight').limit = 100
         /\ Last(inflight').filters = filters']_vars
C9_PollingContract == C9_KeepsPolling /\ C9_RequestParameters

\* C10: once every outstanding call has settled, (raw list, total, maxCount)
\* is the triple of the successful response that settled last, also when its
\* request was issued before that of a response delivered earlier.
C10_LastCompletionWins ==
    (inflight = <<>> /\ lastResp # <<>>) => Triple = TripleOf(lastResp[1])
C10_Witness ==
    /\ inflight = <<>>
    /\ lastResp # <<>>
    /\ lastOvertaken
    /\ lastOutcome = "ok"
    /\ Triple = TripleOf(lastResp[1])
    /\ Triple # InitialTriple

\* C11: the selection is none or one record; it changes only by a row click
\* (to a displayed record) or by the overlay's background / close click (to
\* none), a step that changes nothing else; a click inside the overlay content
\* and every other event leave it as it is, also when the selected record has
\* left the raw list.
C11_SelectionMachine ==
    /\ [](Len(selectedPacket) <= 1)
    /\ [][selectedPacket' # selectedPacket =>
            /\ PanelRendered
            /\ \/ selectedPacket' = <<>>
               \/ \E i \in 1..Len(packets) :
                     TableArea = "table" /\ selectedPacket' = <<packets[i]>>
            /\ UNCHANGED <<phase, authVars, dataVars, autoScroll, filters, showFilters,
                           hideOwnPackets, timerVars, inflight, clearInflight,
                           lastAlert, histVars>>]_vars
    /\ [][OverlayContentClick => UNCHANGED selectedPacket]_vars
C11_Witness ==
    /\ selectedPacket # <<>>
    /\ \A i \in 1..Len(rawPackets) : rawPackets[i] # selectedPacket[1]
    /\ lastOutcome = "fail"
    /\ filters.portnum # <<>>
    /\ ~hideOwnPackets

\* a step in which a from / to cell is clicked and something happens
CellClicked ==
    /\ lastClick' # <<>>
    /\ \/ lastClick' # lastClick
       \/ navCalls' # navCalls
       \/ selectedPacket' # selectedPacket
\* the identifier of the node the clicked cell refers to (optional)
ClickedId ==
    IF lastClick'[1].cell = "from" THEN lastClick'[1].packet.from_node_id
    ELSE lastClick'[1].packet.to_node_id
NavigationExpected ==
    onNodeClick /\ ClickedId # <<>> /\ ClickedId[1] # <<>> /\ ClickedId[1] # BroadcastId
NavigationMade == navCalls' = navCalls + 1 /\ navigated' = ClickedId
\* the clicked cell shows a node link
LinkShown ==
    /\ onNodeClick /\ ClickedId # <<>> /\ ClickedId[1] # <<>>
    /\ lastClick'[1].cell = "to" => ClickedId[1] # BroadcastId

\* C12 as stated: a click on a from / to cell calls the navigation callback,
\* with the node's identifier, exactly when a callback was supplied and the
\* identifier is non-empty and not "!ffffffff"; and it never changes the
\* selected packet.
C12_NodeClick ==
    [][CellClicked =>
         /\ NavigationMade <=> NavigationExpected
         /\ (~NavigationMade) => UNCHANGED <<navCalls, navigated>>
         /\ selectedPacket' = selectedPacket]_vars

\* C12 as amended: the same for the callback; the selected packet is left
\* alone when the cell shows a node link, and a click on a cell shown as plain
\* text selects the row.
C12_NodeClickOnLink ==
    [][CellClicked =>
         /\ NavigationMade <=> NavigationExpected
         /\ (~NavigationMade) => UNCHANGED <<navCalls, navigated>>
         /\ LinkShown => selectedPacket' = selectedPacket
         /\ (~LinkShown) => selectedPacket' = <<lastClick'[1].packet>>]_vars
C12_Witness ==
    /\ navCalls > 0
    /\ lastClick # <<>>
    /\ lastClick[1].cell = "to"
    /\ navigated = lastClick[1].packet.to_node_id
    /\ selectedPacket # <<>>
    /\ selectedPacket[1] # lastClick[1].packet

\* C13: clearPackets is called only for an administrator who confirmed; a
\* declined confirmation changes nothing; and when clearPackets succeeds a
\* getPackets call is issued in the same step, not at the next tick.
C13_ClearGate ==
    /\ [][Len(clearInflight') > Len(clearInflight) => (isAdmin /\ ClearClick(TRUE))]_vars
    /\ [][ClearClick(FALSE) => UNCHANGED vars]_vars
    /\ [][(\E i \in 1..Len(clearInflight) : ClearSuccess(i)) =>
            /\ Issued
            /\ UNCHANGED timerVars]_vars
\* the later of two outstanding calls carries criteria replaced before it was
\* issued: it is the refetch of a clear confirmed before the filter change
C13_Witness ==
    /\ isAdmin
    /\ clearInflight = <<>>
    /\ Len(inflight) = 2
    /\ inflight[1].filters = filters
    /\ inflight[2].filters # filters

\* C14: when clearPackets fails an alert is shown, the clear action issues no
\* getPackets call and leaves the raw list, total, maxCount, filter criteria
\* and selection as they were.
C14_ClearFailure ==
    [][(\E i \in 1..Len(clearInflight) : ClearFailure(i)) =>
         /\ lastAlert' = "Failed to clear packet logs"
         /\ ~Issued
         /\ UNCHANGED <<rawPackets, total, maxCount, filters, selectedPacket>>]_vars
C14_Witness ==
    /\ lastAlert = "Failed to clear packet logs"
    /\ clearInflight = <<>>
    /\ inflight = <<>>
    /\ rawPackets # <<>>
    /\ selectedPacket # <<>>

\* C15: a selector changes only its own field of the filter criteria, "clear
\* filters" resets both fields to unconstrained, each change of the criteria
\* issues a getPackets call with the new criteria in the same step and leaves
\* exactly one timer, which carries them, and every call issued afterwards
\* carries the criteria current when it is issued.
C15_FieldOnly ==
    /\ [][\A v \in PortnumOptions :
            SelectPortnum(v) => filters' = [filters EXCEPT !.portnum = v]]_vars
    /\ [][\A v \in EncryptedOptions :
            SelectEncrypted(v) => filters' = [filters EXCEPT !.encrypted = v]]_vars
    /\ [][ClearFilters => filters' = [portnum |-> <<>>, encrypted |-> <<>>]]_vars
    /\ [][(filters'.portnum # filters.portnum /\ filters'.encrypted # filters.encrypted)
            => ClearFilters]_vars
C15_ChangeRefetches ==
    [][filters' # filters =>
         /\ Issued
         /\ Last(inflight').filters = filters'
         /\ Cardinality(timers') = 1
         /\ \A t \in timers' : t.fp.filters = filters' /\ t.id = pollIntervalRef']_vars
C15_NoOldCriteria ==
    [][Issued => Last(inflight').filters = filters']_vars
C15_FilterChange == C15_FieldOnly /\ C15_ChangeRefetches /\ C15_NoOldCriteria

\* C16: no getPackets call carries the hide-own-packets value, and a step
\* that changes the toggle issues no call, leaves the timers, the raw list,
\* total, maxCount and the filter criteria as they were, and the effective
\* list afterwards is the raw list filtered under the new value.
C16_RequestFields ==
    \A i \in 1..Len(inflight) :
        /\ DOMAIN inflight[i] = {"offset", "limit", "filters", "autoScroll", "overtaken"}
        /\ DOMAIN inflight[i].filters = {"portnum", "encrypted"}
        /\ inflight[i].autoScroll \in BOOLEAN
C16_ClientSideOnly ==
    /\ []C16_RequestFields
    /\ [][hideOwnPackets' # hideOwnPackets =>
            /\ ~Issued
            /\ UNCHANGED <<inflight, timerVars, rawPackets, total, maxCount, filters>>
            /\ packets' = packetsOf(rawPackets, hideOwnPackets', ownNodeNum)]_vars
\* the toggle is on, and hides a row of the raw list, with no call outstanding
C16_Witness ==
    /\ hideOwnPackets
    /\ Len(packets) < Len(rawPackets)
    /\ inflight = <<>>
    /\ Cardinality(timers) = 1

\* a hop field is present when it carries a number
HopPresent(x) == x.kind = "num"
HopsAsClaimed(p) ==
    IF HopPresent(p.hop_start) /\ HopPresent(p.hop_limit)
    THEN /\ calculateHops(p) = Num(p.hop_start.val - p.hop_limit.val)
         /\ hopsCell(p) = NumberToString(p.hop_start.val - p.hop_limit.val)
    ELSE /\ calculateHops(p) = Null
         /\ hopsCell(p) = NAText
\* C17: in every render, each row's hop count is hop_start - hop_limit when
\* both fields carry a number, and is absent, shown as "N/A", when either
\* field is missing or carries no value.
C17_Hops ==
    [][\A i \in 1..Len(packets') : HopsAsClaimed(packets'[i])]_vars

\* the destination is the broadcast identifier, as a string or as a number
IsBroadcastDest(p) == p.to_node_id = <<BroadcastId>> \/ p.to_node = BroadcastNum
\* C18: in every render, the to-cell of each row whose destination is the
\* broadcast identifier is the plain text "Broadcast" (no link), whatever the
\* long name, and so is the To row of the detail overlay of such a packet.
C18_Broadcast ==
    [][/\ \A i \in 1..Len(packets') :
            IsBroadcastDest(packets'[i]) =>
                toNodeCell(packets'[i], onNodeClick') = [link |-> FALSE, text |-> BroadcastText]
       /\ (selectedPacket' # <<>> /\ IsBroadcastDest(selectedPacket'[1])) =>
                detailTo(selectedPacket'[1]) = BroadcastText]_vars

\* the length of the longest type label displayed among the rows pk
RECURSIVE LongestDisplayed(_)
LongestDisplayed(pk) ==
    IF pk = <<>> THEN 0
    ELSE Max(Len(portnumCell(Head(pk))), LongestDisplayed(Tail(pk)))
\* C19: in every render the type-column width is max(L + 5, 12) character
\* units, L being the length of the longest type label displayed among the
\* rows of the effective list (0 for an empty list).
C19_TypeColumnWidth ==
    [][typeColumnWidth(packets') =
         NumberToString(Max(LongestDisplayed(packets') + 5, 12)) \o <<"c", "h">>]_vars

\* C20: a step that applies a successful response puts the scroll position
\* at the top when auto-scroll is enabled at that moment (and the table is
\* rendered), and leaves the scroll position alone when auto-scroll is
\* disabled at that moment, whenever the request was issued.
C20_AutoScrollAtApply ==
    [][(Settled /\ lastOutcome' = "ok") =>
         /\ (autoScroll /\ TableRefSet) => scrollTop' = 0
         /\ (~autoScroll) => scrollTop' = scrollTop]_vars

\* C21: once the raw list holds the response to a request issued with the
\* current filter criteria, it holds such a response until the criteria
\* change again: no later step replaces it by the response to a request that
\* carried other criteria.
C21_NoStaleReplacement ==
    [][(lastFilters = <<filters>> /\ filters' = filters) => lastFilters' = <<filters'>>]_vars

====
